---- MODULE Spec2Model ----
(***************************************************************************)
(* Restaurant App API (src/main.py): phone + OTP demo authentication,      *)
(* restaurant / product listings and the startup seed, over a document     *)
(* store with the collections user, restaurant and product.                *)
(*                                                                         *)
(* Values are tagged records [t |-> type, v |-> payload] so that the       *)
(* code's isinstance tests and str() conversions can be modelled.  Strings *)
(* whose characters the code inspects (phones, identifiers, path           *)
(* parameters) are sequences of one-character strings; display text the    *)
(* code never inspects is an atomic string.                                *)
(***************************************************************************)
EXTENDS Integers, Sequences, FiniteSets, TLC

\* ---------------------------------------------------------------- bounds
MaxClock == 4         \* number of clock readings in one behaviour
OidStart == 9         \* value of the first identifier the store issues
NumSlots == 2         \* requests in flight at once (interleaved model)
MaxConcClock == 3     \* clock readings in one interleaved behaviour
MaxKeys == 3          \* fields of a document given to to_str_id

\* ------------------------------------------------------- program constants
OidLen == 24          \* characters of the string form of an ObjectId
DEMO_OTP == <<"1", "2", "3", "4">>

\* ---------------------------------------------------------------- values
None == [t |-> "none", v |-> 0]
Oid(n) == [t |-> "oid", v |-> n]
Str(s) == [t |-> "str", v |-> s]
Bool(b) == [t |-> "bool", v |-> b]
Num(n) == [t |-> "num", v |-> n]
Time(n) == [t |-> "datetime", v |-> n]

IsObjectId(x) == x.t = "oid"

\* Python truthiness of a document or None: `if not doc`, `if user`
Falsy(x) == x = None \/ DOMAIN x = {}

HexDigits == <<"0", "1", "2", "3", "4", "5", "6", "7", "8", "9",
               "a", "b", "c", "d", "e", "f">>
UpperHexDigits == <<"0", "1", "2", "3", "4", "5", "6", "7", "8", "9",
                    "A", "B", "C", "D", "E", "F">>
HexChars == {HexDigits[i] : i \in 1..16} \cup {UpperHexDigits[i] : i \in 1..16}

RECURSIVE HexRec(_, _)
HexRec(n, k) == IF k = 0 THEN <<>>
                ELSE Append(HexRec(n \div 16, k - 1), HexDigits[(n % 16) + 1])

\* str(ObjectId): 24 lower-case hexadecimal characters
HexStr(n) == HexRec(n, OidLen)

RECURSIVE DecRec(_)
DecRec(n) == IF n < 10 THEN <<HexDigits[n + 1]>>
             ELSE Append(DecRec(n \div 10), HexDigits[(n % 10) + 1])

\* datetime.isoformat(): the string form of a clock reading
IsoFormat(n) == <<"T">> \o DecRec(n)

\* str(x) as the code applies it to identifiers and to an absent lookup
PyStr(x) == CASE x.t = "oid" -> HexStr(x.v)
              [] x.t = "none" -> <<"N", "o", "n", "e">>
              [] x.t = "str" -> x.v
              [] x.t = "num" -> DecRec(x.v)
              [] x.t = "bool" -> IF x.v THEN <<"T", "r", "u", "e">>
                                 ELSE <<"F", "a", "l", "s", "e">>
              [] OTHER -> IsoFormat(x.v)

\* ObjectId.is_valid(s) for a string s
IsValidOid(s) == Len(s) = OidLen /\ \A i \in 1..Len(s) : s[i] \in HexChars

HexVal(c) == (CHOOSE i \in 1..16 : HexDigits[i] = c \/ UpperHexDigits[i] = c) - 1

RECURSIVE ParseHex(_)
ParseHex(s) == IF s = <<>> THEN 0
               ELSE 16 * ParseHex(SubSeq(s, 1, Len(s) - 1)) + HexVal(s[Len(s)])

\* ObjectId(s) for a valid s
ParseOid(s) == Oid(ParseHex(s))

\* str.strip(): drop leading and trailing blanks
RECURSIVE LStrip(_)
LStrip(s) == IF s # <<>> /\ s[1] = " " THEN LStrip(Tail(s)) ELSE s
RECURSIVE RStrip(_)
RStrip(s) == IF s # <<>> /\ s[Len(s)] = " " THEN RStrip(SubSeq(s, 1, Len(s) - 1)) ELSE s
Strip(s) == RStrip(LStrip(s))

\* ------------------------------------------------------- identifier utility
\* to_str_id without the `if "_id" in d` test
ToStrIdNoGuard(doc) ==
    IF Falsy(doc) THEN doc
    ELSE LET id == IF "_id" \in DOMAIN doc THEN doc["_id"] ELSE None
             d1 == [k \in (DOMAIN doc \ {"_id"}) \cup {"id"} |->
                      IF k = "id" THEN Str(PyStr(id)) ELSE doc[k]]
         IN [k \in DOMAIN d1 |-> IF IsObjectId(d1[k]) THEN Str(PyStr(d1[k])) ELSE d1[k]]

to_str_id(doc) ==
    IF Falsy(doc) THEN doc
    ELSE LET d1 == IF "_id" \in DOMAIN doc
                   THEN [k \in (DOMAIN doc \ {"_id"}) \cup {"id"} |->
                            IF k = "id" THEN Str(PyStr(doc["_id"])) ELSE doc[k]]
                   ELSE doc
         IN [k \in DOMAIN d1 |-> IF IsObjectId(d1[k]) THEN Str(PyStr(d1[k])) ELSE d1[k]]

\* ------------------------------------------------------- store primitives
Matches(d, filter) == \A k \in DOMAIN filter : k \in DOMAIN d /\ d[k] = filter[k]

Positions(coll, filter) == {i \in 1..Len(coll) : Matches(coll[i], filter)}

Min(S) == CHOOSE m \in S : \A x \in S : m <= x

\* a find_one that never matches
FindOneNever(coll, filter) == None

\* collection.find_one(filter): the first match in natural order, else None
FindOne(coll, filter) ==
    IF Positions(coll, filter) = {} THEN None
    ELSE coll[Min(Positions(coll, filter))]

\* collection.find(filter) in natural order
RECURSIVE Find(_, _)
Find(coll, filter) ==
    IF coll = <<>> THEN <<>>
    ELSE IF Matches(coll[1], filter) THEN <<coll[1]>> \o Find(Tail(coll), filter)
         ELSE Find(Tail(coll), filter)

\* collection.count_documents({})
CountDocuments(coll) == Len(coll)

Merge(d, set) == [k \in DOMAIN d \cup DOMAIN set |-> IF k \in DOMAIN set THEN set[k] ELSE d[k]]

\* collection.update_one(filter, {"$set": set}): updates the first match
UpdateOne(coll, filter, set) ==
    IF Positions(coll, filter) = {} THEN coll
    ELSE [coll EXCEPT ![Min(Positions(coll, filter))] = Merge(@, set)]

\* collection.insert_one(doc): the driver assigns a fresh _id
InsertOne(coll, doc, n) == Append(coll, Merge(doc, [_id |-> Oid(n)]))

\* collection.insert_many(docs): fresh consecutive identifiers
InsertMany(coll, docs, n) ==
    coll \o [i \in 1..Len(docs) |-> Merge(docs[i], [_id |-> Oid(n + i - 1)])]

\* ------------------------------------------------------------------ state
VARIABLES
    up,          \* the process is running (startup has completed)
    db,          \* the store handle is configured (db is not None)
    clock,       \* datetime.now(timezone.utc), as a counter
    nextOid,     \* next identifier the driver generates
    user,        \* collection "user", in natural order
    restaurant,  \* collection "restaurant"
    product,     \* collection "product"
    resp,        \* the last completed call and its HTTP response
    prev,        \* the call completed before it
    pc,          \* interleaved model: position of each in-flight request
    loc,         \* interleaved model: locals of each in-flight request
    tdoc,        \* to_str_id: the argument
    tout         \* to_str_id: results of one and of two applications

vars == <<up, db, clock, nextOid, user, restaurant, product, resp, prev, pc, loc, tdoc, tout>>

storeVars == <<user, restaurant, product>>
concVars == <<pc, loc>>
normVars == <<tdoc, tout>>

\* ----------------------------------------------------------------- inputs
\* phone strings a request carries: empty, blank, padded, with an inner blank
Phones == {<<>>, <<" ", " ">>, <<"5">>, <<" ", "5", " ">>,
           <<"5", " ", "7">>, <<" ", "5", " ", "7">>}

Otps == {DEMO_OTP, <<"1", "2", "3", "4", " ">>}

UpperStr(s) == [i \in 1..Len(s) |->
                  IF s[i] \in {HexDigits[j] : j \in 1..16}
                  THEN UpperHexDigits[CHOOSE j \in 1..16 : HexDigits[j] = s[i]]
                  ELSE s[i]]

Malformed == {<<"N", "o", "n", "e">>,
              [i \in 1..OidLen |-> IF i = OidLen THEN "z" ELSE "0"]}

\* path parameters: string forms of the second and third identifier issued,
\* in lower and upper case, and strings that are no identifier
PathIds == {HexStr(n) : n \in (OidStart + 1)..(OidStart + 2)}
           \cup {UpperStr(HexStr(n)) : n \in (OidStart + 1)..(OidStart + 2)}
           \cup Malformed

\* ------------------------------------------------------------ seed data
\* rating is in tenths and price in cents
SeedRestaurants(now) == <<
    [name |-> Str("Spice Garden"),
     description |-> Str("Authentic Indian cuisine with a modern twist"),
     address |-> Str("123 Curry Ave"),
     image |-> Str("https://images.unsplash.com/photo-1544025162-d76694265947?q=80&w=1600&auto=format&fit=crop"),
     rating |-> Num(46),
     cuisine |-> Str("Indian"),
     created_at |-> Time(now),
     updated_at |-> Time(now)],
    [name |-> Str("Pasta Piazza"),
     description |-> Str("Fresh handmade pastas and rustic sauces"),
     address |-> Str("45 Roma Street"),
     image |-> Str("https://images.unsplash.com/photo-1523986371872-9d3ba2e2f642?q=80&w=1600&auto=format&fit=crop"),
     rating |-> Num(47),
     cuisine |-> Str("Italian"),
     created_at |-> Time(now),
     updated_at |-> Time(now)] >>

Max(S) == CHOOSE m \in S : \A x \in S : m >= x

\* rest_ids.get with the two restaurant names exchanged
RestIdsGetSwapped(rest_docs, name) ==
    LET other == IF name = "Spice Garden" THEN "Pasta Piazza" ELSE "Spice Garden"
        P == {i \in 1..Len(rest_docs) : rest_docs[i]["name"] = Str(other)}
    IN IF P = {} THEN None ELSE rest_docs[Max(P)]["_id"]

\* rest_ids = {r["name"]: r["_id"] for r in rest_docs}; rest_ids.get(name)
RestIdsGet(rest_docs, name) ==
    LET P == {i \in 1..Len(rest_docs) : rest_docs[i]["name"] = Str(name)}
    IN IF P = {} THEN None ELSE rest_docs[Max(P)]["_id"]

SeedProducts(rest_docs, now) == <<
    [title |-> Str("Butter Chicken"),
     description |-> Str("Creamy tomato sauce with tender chicken"),
     price |-> Num(1299),
     image |-> Str("https://images.unsplash.com/photo-1604909052743-88e0b01e6e8b?q=80&w=1600&auto=format&fit=crop"),
     restaurant_id |-> Str(PyStr(RestIdsGet(rest_docs, "Spice Garden"))),
     tags |-> [t |-> "list", v |-> <<"spicy", "non-veg">>],
     created_at |-> Time(now),
     updated_at |-> Time(now)],
    [title |-> Str("Paneer Tikka"),
     description |-> Str("Grilled cottage cheese with spices"),
     price |-> Num(950),
     image |-> Str("https://images.unsplash.com/photo-1625944528146-1b02d4ca9d24?q=80&w=1600&auto=format&fit=crop"),
     restaurant_id |-> Str(PyStr(RestIdsGet(rest_docs, "Spice Garden"))),
     tags |-> [t |-> "list", v |-> <<"veg", "grill">>],
     created_at |-> Time(now),
     updated_at |-> Time(now)],
    [title |-> Str("Penne Arrabbiata"),
     description |-> Str("Spicy tomato sauce with garlic and chili"),
     price |-> Num(1099),
     image |-> Str("https://images.unsplash.com/photo-1473093295043-cdd812d0e601?q=80&w=1600&auto=format&fit=crop"),
     restaurant_id |-> Str(PyStr(RestIdsGet(rest_docs, "Pasta Piazza"))),
     tags |-> [t |-> "list", v |-> <<"veg", "pasta">>],
     created_at |-> Time(now),
     updated_at |-> Time(now)] >>

\* seeding without the emptiness test
NeedsSeedAlways(coll) == TRUE

\* `count_documents({}) == 0`, the test that guards each seeding step
NeedsSeed(coll) == CountDocuments(coll) = 0

\* seed_data(): the collections, identifier counter and write count it leaves
SeedResult(dbc, rest, prod, now, nid) ==
    IF ~dbc THEN [restaurant |-> rest, product |-> prod, nextOid |-> nid, writes |-> 0]
    ELSE LET seedR == NeedsSeed(rest)
             rest1 == IF seedR THEN InsertMany(rest, SeedRestaurants(now), nid) ELSE rest
             nid1 == IF seedR THEN nid + 2 ELSE nid
             seedP == NeedsSeed(prod)
             rest_docs == Find(rest1, <<>>)
             prod1 == IF seedP THEN InsertMany(prod, SeedProducts(rest_docs, now), nid1) ELSE prod
             nid2 == IF seedP THEN nid1 + 3 ELSE nid1
         IN [restaurant |-> rest1, product |-> prod1, nextOid |-> nid2,
             writes |-> (IF seedR THEN 1 ELSE 0) + (IF seedP THEN 1 ELSE 0)]

\* ------------------------------------------------------------- responses
NoArgs == [phone |-> <<>>, otp |-> <<>>, id |-> <<>>]

Response(op, args, status, body, writes) ==
    [op |-> op, phone |-> args.phone, otp |-> args.otp, id |-> args.id,
     status |-> status, body |-> body, writes |-> writes]

\* what is remembered of the call before the last one: for an accepted
\* send-otp its trimmed phone, for any other call only that it was another one
Brief(r) == IF r.op = "send_otp" /\ r.status = 200
            THEN [op |-> r.op, phone |-> Strip(r.phone), status |-> r.status]
            ELSE [op |-> "other", phone |-> <<>>, status |-> 0]

Detail(msg) == [detail |-> msg]

\* ---------------------------------------------------------- auth handlers
NewUser(phone, now) ==
    [phone |-> Str(phone), name |-> None, is_verified |-> Bool(FALSE),
     last_login |-> Str(IsoFormat(now)), created_at |-> Time(now), updated_at |-> Time(now)]

SendOtpSet(now) == [is_verified |-> Bool(FALSE), last_login |-> Str(IsoFormat(now))]

\* a verify update that leaves the flag false
VerifySetUnverified(now) == [is_verified |-> Bool(FALSE), updated_at |-> Time(now)]

VerifySet(now) == [is_verified |-> Bool(TRUE), updated_at |-> Time(now)]

\* send_otp(payload): status, body and the user collection it leaves
SendOtpResult(dbc, usr, now, nid, phone) ==
    IF ~dbc
    THEN [status |-> 500, body |-> Detail("Database not configured"),
          user |-> usr, writes |-> 0, ticks |-> 0, oids |-> 0]
    ELSE LET p == Strip(phone) IN
         IF p = <<>>
         THEN [status |-> 400, body |-> Detail("Phone is required"),
               user |-> usr, writes |-> 0, ticks |-> 0, oids |-> 0]
         ELSE LET u == FindOne(usr, [phone |-> Str(p)])
                  ok == [success |-> TRUE, otp |-> DEMO_OTP,
                         message |-> "OTP generated. Use 1234 for demo."]
              IN IF ~Falsy(u)
                 THEN [status |-> 200, body |-> ok,
                       user |-> UpdateOne(usr, [_id |-> u["_id"]], SendOtpSet(now)),
                       writes |-> 1, ticks |-> 1, oids |-> 0]
                 ELSE [status |-> 200, body |-> ok,
                       user |-> InsertOne(usr, NewUser(p, now), nid),
                       writes |-> 1, ticks |-> 1, oids |-> 1]

\* a code test that lets every code through
OtpAcceptedAny(otp) == TRUE

\* the code test `payload.otp != "1234"`
OtpAccepted(otp) == otp = DEMO_OTP

\* verify_otp(payload)
VerifyOtpResult(dbc, usr, now, phone, otp) ==
    IF ~dbc
    THEN [status |-> 500, body |-> Detail("Database not configured"),
          user |-> usr, writes |-> 0, ticks |-> 0]
    ELSE LET p == Strip(phone) IN
         IF ~OtpAccepted(otp)
         THEN [status |-> 400, body |-> Detail("Invalid OTP"),
               user |-> usr, writes |-> 0, ticks |-> 0]
         ELSE LET u == FindOne(usr, [phone |-> Str(p)]) IN
              IF Falsy(u)
              THEN [status |-> 404, body |-> Detail("User not found"),
                    user |-> usr, writes |-> 0, ticks |-> 0]
              ELSE LET usr1 == UpdateOne(usr, [_id |-> u["_id"]], VerifySet(now))
                   IN [status |-> 200,
                       body |-> [success |-> TRUE,
                                 user |-> to_str_id(FindOne(usr1, [_id |-> u["_id"]]))],
                       user |-> usr1, writes |-> 1, ticks |-> 1]

\* ------------------------------------------------- listing and detail
RestaurantOutFields == {"id", "name", "description", "address", "image", "rating", "cuisine"}

ProductOutFields == {"id", "title", "description", "price", "image", "restaurant_id", "tags"}

\* RestaurantOut(**m): the declared fields, None where m has none
RestaurantOut(m) == [k \in RestaurantOutFields |-> IF k \in DOMAIN m THEN m[k] ELSE None]

\* ProductOut(**m): the declared fields, tags defaulting to the empty list
ProductOut(m) == [k \in ProductOutFields |->
                    IF k \in DOMAIN m THEN m[k]
                    ELSE IF k = "tags" THEN [t |-> "list", v |-> <<>>] ELSE None]

\* the lookup with an empty filter for a string that is no ObjectId
FindByIdLoose(coll, s) ==
    IF IsValidOid(s) THEN FindOne(coll, [_id |-> ParseOid(s)])
    ELSE FindOne(coll, <<>>)

\* find_one({"_id": ObjectId(s)}) if ObjectId.is_valid(s) else find_one({"_id": s})
FindById(coll, s) ==
    IF IsValidOid(s) THEN FindOne(coll, [_id |-> ParseOid(s)])
    ELSE FindOne(coll, [_id |-> Str(s)])

\* list_restaurants() without the `db is None` test: indexing None raises
ListRestaurantsNoTest(dbc, rest) ==
    IF ~dbc THEN [status |-> 500, body |-> Detail("Internal Server Error")]
    ELSE LET docs == Find(rest, <<>>)
         IN [status |-> 200,
             body |-> [i \in 1..Len(docs) |-> RestaurantOut(to_str_id(docs[i]))]]

\* list_restaurants()
ListRestaurantsResult(dbc, rest) ==
    IF ~dbc THEN [status |-> 200, body |-> <<>>]
    ELSE LET docs == Find(rest, <<>>)
         IN [status |-> 200,
             body |-> [i \in 1..Len(docs) |-> RestaurantOut(to_str_id(docs[i]))]]

\* get_restaurant(restaurant_id)
GetRestaurantResult(dbc, rest, id) ==
    IF ~dbc THEN [status |-> 404, body |-> Detail("Not found")]
    ELSE LET doc == FindById(rest, id)
         IN IF Falsy(doc) THEN [status |-> 404, body |-> Detail("Restaurant not found")]
            ELSE [status |-> 200, body |-> RestaurantOut(to_str_id(doc))]

\* get_restaurant_products(restaurant_id)
GetRestaurantProductsResult(dbc, prod, id) ==
    IF ~dbc THEN [status |-> 200, body |-> <<>>]
    ELSE LET docs == Find(prod, [restaurant_id |-> Str(id)])
         IN [status |-> 200,
             body |-> [i \in 1..Len(docs) |-> ProductOut(to_str_id(docs[i]))]]

\* list_products()
ListProductsResult(dbc, prod) ==
    IF ~dbc THEN [status |-> 200, body |-> <<>>]
    ELSE LET docs == Find(prod, <<>>)
         IN [status |-> 200,
             body |-> [i \in 1..Len(docs) |-> ProductOut(to_str_id(docs[i]))]]

\* get_product(product_id)
GetProductResult(dbc, prod, id) ==
    IF ~dbc THEN [status |-> 404, body |-> Detail("Not found")]
    ELSE LET doc == FindById(prod, id)
         IN IF Falsy(doc) THEN [status |-> 404, body |-> Detail("Product not found")]
            ELSE [status |-> 200, body |-> ProductOut(to_str_id(doc))]

\* ------------------------------------------- sequential model: one call at a time
Idle == [s \in 1..NumSlots |-> "idle"]
NoLocal == [phone |-> <<>>, user |-> None, now |-> 0]
NoLocals == [s \in 1..NumSlots |-> NoLocal]
Boot == Response("boot", NoArgs, 0, <<>>, 0)

InitStore ==
    /\ up = FALSE
    /\ db \in BOOLEAN
    /\ clock = 0
    /\ nextOid = OidStart
    /\ user = <<>>
    /\ restaurant = <<>>
    /\ product = <<>>
    /\ resp = Boot
    /\ prev = Brief(Boot)

Init ==
    /\ InitStore
    /\ pc = Idle
    /\ loc = NoLocals
    /\ tdoc = None
    /\ tout = <<>>

Reply(r) ==
    /\ resp' = r
    /\ prev' = Brief(resp)

\* process start: the store handle is set, then the startup hook seed_data runs
Startup ==
    /\ ~up
    /\ up' = TRUE
    /\ \E c \in BOOLEAN :
         LET r == SeedResult(c, restaurant, product, clock, nextOid) IN
           /\ r.writes > 0 => clock < MaxClock
           /\ db' = c
           /\ restaurant' = r.restaurant
           /\ product' = r.product
           /\ nextOid' = r.nextOid
           /\ clock' = IF r.writes > 0 THEN clock + 1 ELSE clock
           /\ Reply(Response("seed_data", NoArgs, 0, <<>>, r.writes))
    /\ UNCHANGED <<user, concVars, normVars>>

\* process stop; the store keeps its contents
Shutdown ==
    /\ up
    /\ up' = FALSE
    /\ Reply(Response("shutdown", NoArgs, 0, <<>>, 0))
    /\ UNCHANGED <<db, clock, nextOid, storeVars, concVars, normVars>>

SendOtp ==
    /\ up
    /\ \E phone \in Phones :
         LET r == SendOtpResult(db, user, clock, nextOid, phone) IN
           /\ r.ticks > 0 => clock < MaxClock
           /\ user' = r.user
           /\ clock' = clock + r.ticks
           /\ nextOid' = nextOid + r.oids
           /\ Reply(Response("send_otp", [NoArgs EXCEPT !.phone = phone],
                             r.status, r.body, r.writes))
    /\ UNCHANGED <<up, db, restaurant, product, concVars, normVars>>

VerifyOtp ==
    /\ up
    /\ \E phone \in Phones, otp \in Otps :
         LET r == VerifyOtpResult(db, user, clock, phone, otp) IN
           /\ r.ticks > 0 => clock < MaxClock
           /\ user' = r.user
           /\ clock' = clock + r.ticks
           /\ Reply(Response("verify_otp", [NoArgs EXCEPT !.phone = phone, !.otp = otp],
                             r.status, r.body, r.writes))
    /\ UNCHANGED <<up, db, nextOid, restaurant, product, concVars, normVars>>

ReadOnly == <<up, db, clock, nextOid, storeVars, concVars, normVars>>

ListRestaurants ==
    /\ up
    /\ LET r == ListRestaurantsResult(db, restaurant)
       IN Reply(Response("list_restaurants", NoArgs, r.status, r.body, 0))
    /\ UNCHANGED ReadOnly

GetRestaurant ==
    /\ up
    /\ \E id \in PathIds :
         LET r == GetRestaurantResult(db, restaurant, id)
         IN Reply(Response("get_restaurant", [NoArgs EXCEPT !.id = id], r.status, r.body, 0))
    /\ UNCHANGED ReadOnly

GetRestaurantProducts ==
    /\ up
    /\ \E id \in PathIds :
         LET r == GetRestaurantProductsResult(db, product, id)
         IN Reply(Response("get_restaurant_products", [NoArgs EXCEPT !.id = id],
                           r.status, r.body, 0))
    /\ UNCHANGED ReadOnly

ListProducts ==
    /\ up
    /\ LET r == ListProductsResult(db, product)
       IN Reply(Response("list_products", NoArgs, r.status, r.body, 0))
    /\ UNCHANGED ReadOnly

GetProduct ==
    /\ up
    /\ \E id \in PathIds :
         LET r == GetProductResult(db, product, id)
         IN Reply(Response("get_product", [NoArgs EXCEPT !.id = id], r.status, r.body, 0))
    /\ UNCHANGED ReadOnly

Next ==
    \/ Startup
    \/ Shutdown
    \/ SendOtp
    \/ VerifyOtp
    \/ ListRestaurants
    \/ GetRestaurant
    \/ GetRestaurantProducts
    \/ ListProducts
    \/ GetProduct

Spec == Init /\ [][Next]_vars

\* ----------------- interleaved model: each store operation is one atomic step
Slots == 1..NumSlots

\* the state a completed startup leaves, with no request in flight
ConcInit ==
    /\ up = TRUE
    /\ db \in BOOLEAN
    /\ LET r == SeedResult(db, <<>>, <<>>, 0, OidStart) IN
         /\ restaurant = r.restaurant
         /\ product = r.product
         /\ nextOid = r.nextOid
         /\ clock = IF r.writes > 0 THEN 1 ELSE 0
    /\ user = <<>>
    /\ resp = Boot
    /\ prev = Brief(Boot)
    /\ pc = Idle
    /\ loc = NoLocals
    /\ tdoc = None
    /\ tout = <<>>

ConcFrame == <<up, db, restaurant, product, prev, normVars>>

Done(s, r) ==
    /\ pc' = [pc EXCEPT ![s] = "idle"]
    /\ loc' = [loc EXCEPT ![s] = NoLocal]
    /\ resp' = r

\* send_otp, lines 176-180: handle test, trim, empty test
SendOtpBegin(s) ==
    /\ pc[s] = "idle"
    /\ \E phone \in Phones :
         LET args == [NoArgs EXCEPT !.phone = phone] IN
         IF ~db
         THEN Done(s, Response("send_otp", args, 500, Detail("Database not configured"), 0))
         ELSE IF Strip(phone) = <<>>
         THEN Done(s, Response("send_otp", args, 400, Detail("Phone is required"), 0))
         ELSE /\ pc' = [pc EXCEPT ![s] = "send_find"]
              /\ loc' = [loc EXCEPT ![s] = [NoLocal EXCEPT !.phone = phone]]
              /\ resp' = resp
    /\ UNCHANGED <<clock, nextOid, user, ConcFrame>>

\* send_otp, lines 185-186: find_one by phone, then the clock is read
SendOtpFind(s) ==
    /\ pc[s] = "send_find"
    /\ clock < MaxConcClock
    /\ loc' = [loc EXCEPT ![s].user = FindOne(user, [phone |-> Str(Strip(loc[s].phone))]),
                          ![s].now = clock]
    /\ clock' = clock + 1
    /\ pc' = [pc EXCEPT ![s] = "send_write"]
    /\ UNCHANGED <<nextOid, user, resp, ConcFrame>>

\* send_otp, lines 187-202: update_one or insert_one, then the response
SendOtpWrite(s) ==
    /\ pc[s] = "send_write"
    /\ LET u == loc[s].user
           args == [NoArgs EXCEPT !.phone = loc[s].phone]
           ok == [success |-> TRUE, otp |-> DEMO_OTP,
                  message |-> "OTP generated. Use 1234 for demo."]
       IN /\ IF ~Falsy(u)
             THEN /\ user' = UpdateOne(user, [_id |-> u["_id"]], SendOtpSet(loc[s].now))
                  /\ nextOid' = nextOid
             ELSE /\ user' = InsertOne(user, NewUser(Strip(loc[s].phone), loc[s].now), nextOid)
                  /\ nextOid' = nextOid + 1
          /\ Done(s, Response("send_otp", args, 200, ok, 1))
    /\ UNCHANGED <<clock, ConcFrame>>

\* verify_otp, lines 207-214: handle test, code test, find_one by phone
VerifyOtpBegin(s) ==
    /\ pc[s] = "idle"
    /\ \E phone \in Phones, otp \in Otps :
         LET args == [NoArgs EXCEPT !.phone = phone, !.otp = otp] IN
         IF ~db
         THEN Done(s, Response("verify_otp", args, 500, Detail("Database not configured"), 0))
         ELSE IF ~OtpAccepted(otp)
         THEN Done(s, Response("verify_otp", args, 400, Detail("Invalid OTP"), 0))
         ELSE LET u == FindOne(user, [phone |-> Str(Strip(phone))]) IN
              IF Falsy(u)
              THEN Done(s, Response("verify_otp", args, 404, Detail("User not found"), 0))
              ELSE /\ pc' = [pc EXCEPT ![s] = "verify_update"]
                   /\ loc' = [loc EXCEPT ![s] = [NoLocal EXCEPT !.phone = phone, !.user = u]]
                   /\ resp' = resp
    /\ UNCHANGED <<clock, nextOid, user, ConcFrame>>

\* verify_otp, line 215: update_one by _id
VerifyOtpUpdate(s) ==
    /\ pc[s] = "verify_update"
    /\ clock < MaxConcClock
    /\ user' = UpdateOne(user, [_id |-> loc[s].user["_id"]], VerifySet(clock))
    /\ clock' = clock + 1
    /\ pc' = [pc EXCEPT ![s] = "verify_read"]
    /\ UNCHANGED <<nextOid, loc, resp, ConcFrame>>

\* verify_otp, line 216: find_one by _id, normalise, respond
VerifyOtpRead(s) ==
    /\ pc[s] = "verify_read"
    /\ Done(s, Response("verify_otp", [NoArgs EXCEPT !.phone = loc[s].phone, !.otp = DEMO_OTP],
                        200,
                        [success |-> TRUE,
                         user |-> to_str_id(FindOne(user, [_id |-> loc[s].user["_id"]]))],
                        1))
    /\ UNCHANGED <<clock, nextOid, user, ConcFrame>>

ConcNext ==
    \E s \in Slots :
        \/ SendOtpBegin(s)
        \/ SendOtpFind(s)
        \/ SendOtpWrite(s)
        \/ VerifyOtpBegin(s)
        \/ VerifyOtpUpdate(s)
        \/ VerifyOtpRead(s)

ConcSpec == ConcInit /\ [][ConcNext]_vars

\* --------------------------------------------- to_str_id as a pure function
DocKeys == {"_id", "id", "name", "ref"}

DocValues == {Oid(OidStart), Oid(OidStart + 1), Str(HexStr(OidStart)), Str(<<"a">>),
              None, Num(5)}

\* None, the empty mapping, and every mapping of at most MaxKeys fields
Docs == {None} \cup UNION {[K -> DocValues] : K \in {S \in SUBSET DocKeys : Cardinality(S) <= MaxKeys}}

NormInit ==
    /\ InitStore
    /\ pc = Idle
    /\ loc = NoLocals
    /\ tdoc \in Docs
    /\ tout = <<>>

\* one application of to_str_id, and a second one to its result
Normalize ==
    /\ tout = <<>>
    /\ tout' = <<to_str_id(tdoc), to_str_id(to_str_id(tdoc))>>
    /\ UNCHANGED <<up, db, clock, nextOid, storeVars, resp, prev, concVars, tdoc>>

NormNext == Normalize

NormSpec == NormInit /\ [][NormNext]_vars

\* ================================================================= claims
CountPhone(coll, p) == Cardinality({i \in 1..Len(coll) : coll[i]["phone"] = Str(p)})

LowerStr(s) == [i \in 1..Len(s) |->
                  IF s[i] \in {UpperHexDigits[j] : j \in 1..16}
                  THEN HexDigits[CHOOSE j \in 1..16 : UpperHexDigits[j] = s[i]]
                  ELSE s[i]]

\* the path string s is a string form of the identifier of document d
Denotes(s, d) == LowerStr(s) = HexStr(d["_id"].v)

SendThenVerify ==
    /\ prev.op = "send_otp"
    /\ prev.status = 200
    /\ resp.op = "verify_otp"
    /\ resp.otp = DEMO_OTP
    /\ Strip(resp.phone) = prev.phone

\* C1: an accepted send-otp followed directly by a verify of the same phone
\* with the code 1234 returns 200, leaves every stored record of that phone
\* with is_verified = true and returns that record, normalised, in the body.
C1_SendThenVerifyVerifies ==
    SendThenVerify =>
        /\ resp.status = 200
        /\ CountPhone(user, prev.phone) >= 1
        /\ \A i \in 1..Len(user) :
             user[i]["phone"] = Str(prev.phone) =>
               /\ user[i]["is_verified"] = Bool(TRUE)
               /\ resp.body.user["id"] = Str(HexStr(user[i]["_id"].v))
        /\ resp.body.user["is_verified"] = Bool(TRUE)
        /\ resp.body.user["phone"] = Str(prev.phone)
        /\ "_id" \notin DOMAIN resp.body.user

C1_Witness ==
    /\ SendThenVerify
    /\ resp.status = 200
    /\ Len(user) >= 2
    /\ resp.phone # prev.phone

\* C2 as stated: a verify whose code is not 1234 always answers 400.
C2_WrongCodeAlways400 ==
    (resp.op = "verify_otp" /\ resp.otp # DEMO_OTP) => resp.status = 400

\* C2 amended: with the store configured, a verify whose code is not 1234
\* answers 400 and writes nothing, whether or not a user with that phone exists.
C2_WrongCode400WhenConfigured ==
    (resp.op = "verify_otp" /\ resp.otp # DEMO_OTP /\ db) =>
        /\ resp.status = 400
        /\ resp.writes = 0

C2_Witness ==
    /\ resp.op = "verify_otp"
    /\ resp.otp # DEMO_OTP
    /\ db
    /\ resp.status = 400
    /\ CountPhone(user, Strip(resp.phone)) = 1

AcceptedFor(r, op, p) == r.op = op /\ r.status = 200 /\ Strip(r.phone) = p

\* C3: after an accepted send-otp exactly one record holds its phone; when the
\* call before it was an accepted send-otp or verify of the same phone, the
\* call inserts nothing and updates the existing record, leaving is_verified false.
C3_SecondSendUpdates ==
    [][ (resp'.op = "send_otp" /\ resp'.status = 200) =>
          LET p == Strip(resp'.phone) IN
            /\ CountPhone(user', p) = 1
            /\ (AcceptedFor(resp, "send_otp", p) \/ AcceptedFor(resp, "verify_otp", p)) =>
                 /\ Len(user') = Len(user)
                 /\ \A i \in 1..Len(user) :
                      /\ user'[i]["_id"] = user[i]["_id"]
                      /\ user'[i]["phone"] = user[i]["phone"]
                      /\ user[i]["phone"] = Str(p) => user'[i]["is_verified"] = Bool(FALSE)
                      /\ user[i]["phone"] # Str(p) => user'[i] = user[i]
      ]_vars

C3_Witness ==
    /\ AcceptedFor(resp, "send_otp", prev.phone)
    /\ prev.op = "send_otp"
    /\ prev.status = 200
    /\ CountPhone(user, prev.phone) = 1
    /\ Len(user) = 1

RestaurantNamed(name) == FindOne(restaurant, [name |-> Str(name)])

ProductsOf(r) == {i \in 1..Len(product) : product[i]["restaurant_id"] = Str(HexStr(r["_id"].v))}

ListedIds == LET l == ListRestaurantsResult(db, restaurant).body
             IN {l[i]["id"] : i \in 1..Len(l)}

\* C4: the seed run that starts from an empty restaurant and an empty product
\* collection leaves exactly the restaurants Spice Garden and Pasta Piazza and
\* three products, two referring to Spice Garden's identifier string and one to
\* Pasta Piazza's, each reference being an id that GET /restaurants returns.
C4_SeedFromEmpty ==
    (resp.op = "seed_data" /\ resp.writes = 2) =>
        /\ Len(restaurant) = 2
        /\ {restaurant[i]["name"] : i \in 1..2} = {Str("Spice Garden"), Str("Pasta Piazza")}
        /\ Len(product) = 3
        /\ Cardinality(ProductsOf(RestaurantNamed("Spice Garden"))) = 2
        /\ Cardinality(ProductsOf(RestaurantNamed("Pasta Piazza"))) = 1
        /\ \A i \in 1..3 : product[i]["restaurant_id"] \in ListedIds

C4_Witness ==
    /\ resp.op = "seed_data"
    /\ resp.writes = 2
    /\ Len(product) = 3
    /\ Cardinality(ListedIds) = 2

\* C5: a seed run that finds both collections non-empty writes nothing, and once
\* both are non-empty no later step changes them: they stay the 2 restaurants
\* and 3 products of the first run.
C5_SeedIdempotent ==
    [][ (restaurant # <<>> /\ product # <<>>) =>
          /\ restaurant' = restaurant
          /\ product' = product
          /\ Len(restaurant') = 2
          /\ Len(product') = 3
          /\ resp'.op = "seed_data" => (resp'.writes = 0 /\ user' = user)
      ]_vars

C5_Witness ==
    /\ resp.op = "seed_data"
    /\ resp.writes = 0
    /\ db
    /\ Len(restaurant) = 2
    /\ Len(product) = 3

MutatingOps == {"send_otp", "verify_otp"}
DetailOps == {"get_restaurant", "get_product"}
ListOps == {"list_restaurants", "list_products", "get_restaurant_products"}

\* C6 as stated: with the handle null, mutating and detail endpoints answer
\* 500 and the list endpoints answer 200 with an empty list.
C6_UnavailableDetail500 ==
    ~db =>
        /\ resp.op \in MutatingOps \cup DetailOps => resp.status = 500
        /\ resp.op \in ListOps => (resp.status = 200 /\ resp.body = <<>>)

\* C6 amended: with the handle null, send-otp and verify answer 500, the detail
\* endpoints answer 404, and the list endpoints answer 200 with an empty list.
C6_UnavailableDetail404 ==
    ~db =>
        /\ resp.op \in MutatingOps => resp.status = 500
        /\ resp.op \in DetailOps => resp.status = 404
        /\ resp.op \in ListOps => (resp.status = 200 /\ resp.body = <<>>)

C6_Witness ==
    /\ ~db
    /\ resp.op = "list_restaurants"
    /\ resp.status = 200
    /\ resp.body = <<>>
    /\ restaurant # <<>>

DetailColl == IF resp.op = "get_restaurant" THEN restaurant ELSE product

\* C7: with the store configured, a detail fetch whose path string is no string
\* form of a stored identifier of that collection answers 404, and one for the
\* string form of a stored identifier answers 200 with that record.
C7_DetailNotFound ==
    (db /\ resp.op \in DetailOps) =>
        /\ (\A i \in 1..Len(DetailColl) : ~Denotes(resp.id, DetailColl[i])) => resp.status = 404
        /\ \A i \in 1..Len(DetailColl) :
             resp.id = HexStr(DetailColl[i]["_id"].v) =>
               /\ resp.status = 200
               /\ resp.body["id"] = Str(resp.id)
               /\ resp.op = "get_restaurant" => resp.body["name"] = DetailColl[i]["name"]
               /\ resp.op = "get_product" => resp.body["title"] = DetailColl[i]["title"]

C7_Witness ==
    /\ db
    /\ resp.op = "get_restaurant"
    /\ resp.id \in Malformed
    /\ restaurant # <<>>
    /\ resp.status = 404

HasNativeId(d) == "_id" \in DOMAIN d \/ \E k \in DOMAIN d : IsObjectId(d[k])

\* C8: to_str_id applied twice gives what it gives applied once, and a mapping
\* with no _id field and no ObjectId value comes back unchanged.
C8_ToStrIdIdempotent ==
    tout # <<>> =>
        /\ tout[2] = tout[1]
        /\ (tdoc # None /\ ~HasNativeId(tdoc)) => tout[1] = tdoc
        /\ tdoc = None => tout[1] = None

C8_Witness ==
    /\ tout # <<>>
    /\ tdoc # None
    /\ "_id" \in DOMAIN tdoc
    /\ "id" \in DOMAIN tdoc
    /\ IsObjectId(tdoc["_id"])
    /\ tout[1] # tdoc

\* C9 as stated: an accepted send-otp for a phone that has a record sets its
\* is_verified to false and its last_login and updated_at to the time of the
\* call; for a phone without a record it inserts one with is_verified false;
\* either way it performs exactly one store write.
C9_SendOtpUpdatesTimestamps ==
    [][ (resp'.op = "send_otp" /\ resp'.status = 200) =>
          LET p == Strip(resp'.phone)
              old == FindOne(user, [phone |-> Str(p)])
              new == FindOne(user', [phone |-> Str(p)])
          IN /\ resp'.writes = 1
             /\ new # None
             /\ new["is_verified"] = Bool(FALSE)
             /\ new["last_login"] = Str(IsoFormat(clock))
             /\ IF old = None
                THEN Len(user') = Len(user) + 1
                ELSE /\ Len(user') = Len(user)
                     /\ new["updated_at"] = Time(clock)
      ]_vars

\* C10: no two records of the user collection hold the same phone.
C10_UniquePhones ==
    \A i, j \in 1..Len(user) : i # j => user[i]["phone"] # user[j]["phone"]

====
